---- MODULE Spec2Model ----
(***************************************************************************)
(* A model of experiments/DASK-notebooks/gaia_all_sky.ipynb: one run of    *)
(* the notebook, top to bottom, statement by statement.  The state is the  *)
(* kernel's name space (cluster, client, df, points), the logging          *)
(* configuration the logger loop of cell 7 reads and writes, the           *)
(* filesystem the dataset loader of cell 13 probes, and the cluster        *)
(* memory the persist of cell 15 fills in the background.                  *)
(***************************************************************************)
EXTENDS Integers, Sequences, FiniteSets, TLC

VARIABLES
    pc,          \* the statement the kernel executes next, "done" or "failed"
    phase,       \* position inside a statement: "ready", "fallback", "blocked"
    i,           \* index of the logger loop of cell 7 (1..5, 6 when over)
    level,       \* logging configuration: logger name -> the logger's own level
    level0,      \* history: the logging configuration before the loop
    emitted,     \* loggers for which the loop's dcl.debug produced a record
    fs,          \* filesystem: path -> [exists, fault]
    attempts,    \* history: the dd.read_parquet calls made, with their outcome
    df,          \* the kernel's name df: a dataset handle, or NoHandle
    points,      \* the kernel's name points: the handle hv.Points wraps
    cmap,        \* hd.shade.cmap
    cluster,     \* "none", "created" or "closed"
    workers,     \* number of worker pods asked of the cluster
    client,      \* whether a client is connected to the cluster's scheduler
    inMemory,    \* partitions of the dataset held in the workers' memory
    nrows,       \* the value len(df) returned: partitions counted, -1 before
    rendered,    \* whether the datashade raster has been displayed
    started,     \* history: the statements started, in order
    returned,    \* history: the statements that returned, in order
    err          \* the exception that stopped the run, or NoErr

vars == <<pc, phase, i, level, level0, emitted, fs, attempts, df, points, cmap,
          cluster, workers, client, inMemory, nrows, rendered, started,
          returned, err>>

----------------------------------------------------------------------------
(* Bounds of the model *)

\* the dataset has NParts partitions (row groups) to bring into memory
NParts == 2
\* logger levels range over NOTSET and 10, 20, ..., 10 * MaxLevel
MaxLevel == 3

----------------------------------------------------------------------------
(* Program constants *)

\* logging.NOTSET, logging.DEBUG, logging.INFO
NOTSET == 0
DEBUG == 10
INFO == 20
\* cluster.scale_up(15)
NWorkers == 15

PrimaryPath == "/project/shared/data/gaia_dr2/gaia_source.parquet"
SecondaryPath == "/project/shared/data/rsp_check_data/parquet/gaia_source.parquet"
CloudPath == "gs://jupyterlabdemo-gaia-dr2/gaia_source.parquet"
Paths == {PrimaryPath, SecondaryPath, CloudPath}

Levels == {NOTSET} \cup {10 * k : k \in 1..MaxLevel}

----------------------------------------------------------------------------
(* Cell 7: the logging hierarchy and the logger loop *)

\* for comp in ['', '.core', '.comm', '.client', '.scheduler']
Comps == <<"", ".core", ".comm", ".client", ".scheduler">>

\* 'distributed{}'.format(comp)
LoggerName(comp) == "distributed" \o comp

\* the loggers the loop names
Named == {LoggerName(Comps[k]) : k \in 1..Len(Comps)}

\* a logger of the same hierarchy that the loop does not name
OtherLogger == "distributed.worker"

Loggers == {"root"} \cup Named \cup {OtherLogger}

\* logging's hierarchy: the dotted name's prefix, the root for 'distributed'
Parent(l) == IF l = "distributed" THEN "root" ELSE "distributed"

\* Logger.getEffectiveLevel(): the first level set (non zero) from the logger
\* up to the root, NOTSET when there is none
RECURSIVE EffectiveLevel(_, _)
EffectiveLevel(lv, l) ==
    IF lv[l] # NOTSET THEN lv[l]
    ELSE IF l = "root" THEN NOTSET
    ELSE EffectiveLevel(lv, Parent(l))

\* mutant: the test reads the logger's own level, and only when one is set
NeedsRaiseOwn(lv, l) == lv[l] # NOTSET /\ lv[l] < INFO
\* mutant: the level is set without a test
NeedsRaiseAlways(lv, l) == TRUE
\* if dcl.getEffectiveLevel() < logging.INFO
NeedsRaise(lv, l) == EffectiveLevel(lv, l) < INFO

\* Logger.isEnabledFor(DEBUG), which decides whether dcl.debug emits a record
EnabledForDebug(lv, l) == DEBUG >= EffectiveLevel(lv, l)

----------------------------------------------------------------------------
(* The order of the statements *)

Steps == <<"create", "logging", "scale", "client", "load", "persist", "count",
           "extension", "points", "render", "close">>

\* the same statements with the row count and the render exchanged
StepsSwapped == <<"create", "logging", "scale", "client", "load", "persist",
                  "render", "extension", "points", "count", "close">>

IndexIn(seq, s) == CHOOSE k \in 1..Len(seq) : seq[k] = s

\* mutant: the render cell comes before the row count cell
NextStepSwapped(s) ==
    IF IndexIn(StepsSwapped, s) < Len(StepsSwapped)
    THEN StepsSwapped[IndexIn(StepsSwapped, s) + 1] ELSE "done"
\* the statement after s in the notebook, "done" after the last
NextStep(s) ==
    IF IndexIn(Steps, s) < Len(Steps) THEN Steps[IndexIn(Steps, s) + 1] ELSE "done"

\* mutant: the run goes on with the next statement after an exception
AfterFailureContinue(s) == NextStep(s)
\* no statement is wrapped in a handler that resumes: an exception ends the run
AfterFailure(s) == "failed"

NoErr == [step |-> "none", type |-> "none"]

\* statement s starts
Call(s) == started' = Append(started, s)
\* statement s returns and the kernel moves to the next one
Return(s) ==
    /\ returned' = Append(returned, s)
    /\ pc' = NextStep(s)
    /\ phase' = "ready"
    /\ err' = err
\* statement s raises e, which nothing handles
Raise(s, e) ==
    /\ err' = [step |-> s, type |-> e]
    /\ pc' = AfterFailure(s)
    /\ phase' = "ready"
    /\ returned' = returned

----------------------------------------------------------------------------
(* Cell 13: the dataset loader *)

NoHandle == [bound |-> FALSE, path |-> "none", columns |-> <<>>, index |-> <<>>,
             engine |-> "none", persisted |-> FALSE]

\* dd.read_parquet(path, columns=, index=, engine=): a lazy handle on the
\* dataset at path with the given projection
ReadParquet(path, args) ==
    [bound |-> TRUE, path |-> path, columns |-> args.columns,
     index |-> args.index, engine |-> args.engine, persisted |-> FALSE]

\* the keyword arguments of the call in the try block
PrimaryArgs == [columns |-> <<"l", "b">>, index |-> <<>>, engine |-> "fastparquet"]

\* mutant: the fallback call lost its column projection
SecondaryArgsAll ==
    [columns |-> <<"source_id", "l", "b">>, index |-> <<>>, engine |-> "fastparquet"]
\* the keyword arguments of the call in the except block
SecondaryArgs == [columns |-> <<"l", "b">>, index |-> <<>>, engine |-> "fastparquet"]

\* mutant: the except block reads the cloud-storage bucket
FallbackCloud == CloudPath
\* the path of the call in the except block
FallbackPath == SecondaryPath

\* what a read of path does in this environment: a fault (the engine, the
\* permissions, the file's contents, the network) raises some other error
\* whether or not the path is there; an absent path raises FileNotFoundError
Outcome(path) ==
    IF fs[path].fault THEN "OtherError"
    ELSE IF ~fs[path].exists THEN "FileNotFoundError"
    ELSE "ok"

\* mutant: the handler names the wrong exception class
HandledOther(e) == e = "OtherError"
\* mutant: a bare except
HandledAny(e) == TRUE
\* except FileNotFoundError
Handled(e) == e = "FileNotFoundError"

----------------------------------------------------------------------------
(* Cell 15: persist, and what the cluster does with it *)

\* mutant: the cluster starts to load a handle as soon as it exists
ComputingEager(h) == h.bound
\* the cluster computes the partitions of a handle the client has submitted
Computing(h) == h.bound /\ h.persisted

\* mutant: an operation on the handle does not wait for the persist
ReadyAsync(h) == TRUE
\* an operation on a persisted handle gets its result once every partition
\* is in memory
Ready(h) == h.persisted => inMemory = NParts

----------------------------------------------------------------------------
(* Initial states *)

FsStates == [exists : BOOLEAN, fault : BOOLEAN]

\* the state of a fresh kernel, before the first code cell
InitKernel ==
    /\ phase = "ready"
    /\ i = 1
    /\ level0 = level
    /\ emitted = {}
    /\ attempts = <<>>
    /\ df = NoHandle
    /\ points = NoHandle
    /\ cmap = <<>>
    /\ workers = 0
    /\ client = FALSE
    /\ inMemory = 0
    /\ nrows = -1
    /\ rendered = FALSE
    /\ err = NoErr

\* a run of the whole notebook; the root logger and 'distributed' have any
\* level, the other loggers have none set
Init ==
    /\ pc = "create"
    /\ cluster = "none"
    /\ started = <<>>
    /\ returned = <<>>
    /\ \E r \in Levels, d \in Levels :
          level = [l \in Loggers |->
                      IF l = "root" THEN r ELSE IF l = "distributed" THEN d ELSE NOTSET]
    /\ \E p \in FsStates, s \in FsStates :
          fs = [x \in Paths |->
                   IF x = PrimaryPath THEN p
                   ELSE IF x = SecondaryPath THEN s
                   ELSE [exists |-> TRUE, fault |-> FALSE]]
    /\ InitKernel

\* the kernel at the top of cell 7, with every logging configuration
InitLog ==
    /\ pc = "logging"
    /\ cluster = "created"
    /\ started = <<"create">>
    /\ returned = <<"create">>
    /\ level \in [Loggers -> Levels]
    /\ fs = [x \in Paths |-> [exists |-> TRUE, fault |-> FALSE]]
    /\ InitKernel

----------------------------------------------------------------------------
(* The statements *)

logv == <<i, level, level0, emitted>>
datav == <<fs, attempts, df, points, cmap>>
clusterv == <<cluster, workers, client, inMemory>>
outv == <<nrows, rendered>>

\* cell 5: cluster = KubeCluster.from_yaml('/etc/dask/dask_worker.yml')
Create ==
    /\ pc = "create"
    /\ Call("create")
    /\ cluster' = "created"
    /\ Return("create")
    /\ UNCHANGED <<logv, datav, workers, client, inMemory, outv>>

\* cell 7: one iteration of the logger loop
LogIter ==
    /\ pc = "logging"
    /\ i <= Len(Comps)
    /\ LET dcl == LoggerName(Comps[i]) IN
          IF NeedsRaise(level, dcl)
          THEN /\ emitted' = IF EnabledForDebug(level, dcl)
                             THEN emitted \cup {dcl} ELSE emitted
               /\ level' = [level EXCEPT ![dcl] = INFO]
          ELSE UNCHANGED <<level, emitted>>
    /\ i' = i + 1
    /\ started' = IF i = 1 THEN Append(started, "logging") ELSE started
    /\ IF i = Len(Comps)
       THEN Return("logging")
       ELSE UNCHANGED <<pc, phase, returned, err>>
    /\ UNCHANGED <<level0, datav, clusterv, outv>>

\* cell 9: _ = cluster.scale_up(15)
Scale ==
    /\ pc = "scale"
    /\ Call("scale")
    /\ workers' = NWorkers
    /\ Return("scale")
    /\ UNCHANGED <<logv, datav, cluster, client, inMemory, outv>>

\* cell 9: client = Client(cluster)
Connect ==
    /\ pc = "client"
    /\ Call("client")
    /\ client' = TRUE
    /\ Return("client")
    /\ UNCHANGED <<logv, datav, cluster, workers, inMemory, outv>>

\* cell 13: the try block
LoadPrimary ==
    /\ pc = "load"
    /\ phase = "ready"
    /\ Call("load")
    /\ LET o == Outcome(PrimaryPath) IN
          /\ attempts' = Append(attempts, [path |-> PrimaryPath, outcome |-> o])
          /\ IF o = "ok"
             THEN /\ df' = ReadParquet(PrimaryPath, PrimaryArgs)
                  /\ Return("load")
             ELSE IF Handled(o)
             THEN /\ phase' = "fallback"
                  /\ UNCHANGED <<pc, df, returned, err>>
             ELSE /\ Raise("load", o)
                  /\ UNCHANGED df
    /\ UNCHANGED <<logv, fs, points, cmap, clusterv, outv>>

\* cell 13: the except block
LoadFallback ==
    /\ pc = "load"
    /\ phase = "fallback"
    /\ LET o == Outcome(FallbackPath) IN
          /\ attempts' = Append(attempts, [path |-> FallbackPath, outcome |-> o])
          /\ IF o = "ok"
             THEN /\ df' = ReadParquet(FallbackPath, SecondaryArgs)
                  /\ Return("load")
             ELSE /\ Raise("load", o)
                  /\ UNCHANGED df
    /\ UNCHANGED <<logv, fs, points, cmap, clusterv, outv, started>>

\* cell 15: df = client.persist(df); the call submits the handle and returns
Persist ==
    /\ pc = "persist"
    /\ Call("persist")
    /\ df' = [df EXCEPT !.persisted = TRUE]
    /\ Return("persist")
    /\ UNCHANGED <<logv, fs, attempts, points, cmap, clusterv, outv>>

\* the cluster brings one more partition of a submitted handle into memory
PersistProgress ==
    /\ Computing(df)
    /\ cluster = "created"
    /\ inMemory < NParts
    /\ inMemory' = inMemory + 1
    /\ UNCHANGED <<pc, phase, logv, datav, cluster, workers, client, outv,
                   started, returned, err>>

\* cell 17: len(df) is called and waits for the cluster
CountCall ==
    /\ pc = "count"
    /\ phase = "ready"
    /\ Call("count")
    /\ phase' = "blocked"
    /\ UNCHANGED <<pc, logv, datav, clusterv, outv, returned, err>>

\* cell 17: len(df) returns the count
CountReturn ==
    /\ pc = "count"
    /\ phase = "blocked"
    /\ Ready(df)
    /\ nrows' = inMemory
    /\ Return("count")
    /\ UNCHANGED <<logv, datav, clusterv, rendered, started>>

\* cell 19: hd.shade.cmap = [...]; hv.extension("bokeh", "matplotlib")
Extension ==
    /\ pc = "extension"
    /\ Call("extension")
    /\ cmap' = <<"lightblue", "darkblue">>
    /\ Return("extension")
    /\ UNCHANGED <<logv, fs, attempts, df, points, clusterv, outv>>

\* cell 21: points = hv.Points(df)
Points ==
    /\ pc = "points"
    /\ Call("points")
    /\ points' = df
    /\ Return("points")
    /\ UNCHANGED <<logv, fs, attempts, df, cmap, clusterv, outv>>

\* cell 23: hd.datashade(points) is called and waits for the cluster
RenderCall ==
    /\ pc = "render"
    /\ phase = "ready"
    /\ Call("render")
    /\ phase' = "blocked"
    /\ UNCHANGED <<pc, logv, datav, clusterv, outv, returned, err>>

\* cell 23: the raster is aggregated and displayed
RenderReturn ==
    /\ pc = "render"
    /\ phase = "blocked"
    /\ Ready(points)
    /\ rendered' = TRUE
    /\ Return("render")
    /\ UNCHANGED <<logv, datav, clusterv, nrows, started>>

\* cell 25: cluster.close() stops the workers and the scheduler
Close ==
    /\ pc = "close"
    /\ Call("close")
    /\ cluster' = "closed"
    /\ workers' = 0
    /\ client' = FALSE
    /\ inMemory' = 0
    /\ Return("close")
    /\ UNCHANGED <<logv, datav, outv>>

\* a library call that returns at once raises instead
StepRaise ==
    /\ pc \in {"create", "scale", "client", "persist", "extension", "points", "close"}
    /\ Call(pc)
    /\ Raise(pc, "OtherError")
    /\ UNCHANGED <<logv, datav, clusterv, outv>>

\* a library call that waits for the cluster raises instead of returning
BlockedRaise ==
    /\ pc \in {"count", "render"}
    /\ phase = "blocked"
    /\ Raise(pc, "OtherError")
    /\ UNCHANGED <<logv, datav, clusterv, outv, started>>

\* the statements that go through
Advance ==
    \/ Create \/ LogIter \/ Scale \/ Connect \/ LoadPrimary \/ LoadFallback
    \/ Persist \/ CountCall \/ CountReturn \/ Extension \/ Points
    \/ RenderCall \/ RenderReturn \/ Close

Next ==
    \/ Create
    \/ LogIter
    \/ Scale
    \/ Connect
    \/ LoadPrimary
    \/ LoadFallback
    \/ Persist
    \/ PersistProgress
    \/ CountCall
    \/ CountReturn
    \/ Extension
    \/ Points
    \/ RenderCall
    \/ RenderReturn
    \/ Close
    \/ StepRaise
    \/ BlockedRaise

NextLog == LogIter

\* one run of the notebook
Spec == Init /\ [][Next]_vars

\* one run in which the kernel executes the next statement whenever it can;
\* nothing is assumed of the cluster's progress
FairSpec == Init /\ [][Next]_vars /\ WF_vars(Advance)

\* the logger loop alone, from every logging configuration
LogSpec == InitLog /\ [][NextLog]_vars

----------------------------------------------------------------------------
(* Properties *)

InSeq(seq, s) == \E k \in 1..Len(seq) : seq[k] = s
NoDup(seq) == \A a, b \in 1..Len(seq) : a # b => seq[a] # seq[b]

\* the loading statement has been executed and is over (returned or raised)
LoadOver == InSeq(started, "load") /\ pc # "load"

C2_OtherErrorPropagates ==
    (Len(attempts) >= 1 /\ attempts[1].outcome = "OtherError")
        => /\ pc = "failed"
           /\ err = [step |-> "load", type |-> "OtherError"]
           /\ Len(attempts) = 1
           /\ ~df.bound
           /\ ~InSeq(returned, "load")

C2_Witness ==
    /\ pc = "failed"
    /\ err.step = "load"
    /\ Len(attempts) = 1
    /\ attempts[1].path = PrimaryPath
    /\ attempts[1].outcome = "OtherError"
    /\ fs[SecondaryPath].exists
    /\ ~fs[SecondaryPath].fault

\* C3: the reads are made by fixed priority: the primary path first, the
\* secondary path only after the primary read raised FileNotFoundError, at
\* most one read succeeds, and the cloud-storage path is never read.
C3_FixedPriority ==
    /\ Len(attempts) <= 2
    /\ InSeq(started, "load") => Len(attempts) >= 1
    /\ Len(attempts) >= 1 => attempts[1].path = PrimaryPath
    /\ Len(attempts) = 2 =>
          /\ attempts[2].path = SecondaryPath
          /\ attempts[1].outcome = "FileNotFoundError"
    /\ \A k \in 1..Len(attempts) : attempts[k].path # CloudPath
    /\ Cardinality({k \in 1..Len(attempts) : attempts[k].outcome = "ok"}) <= 1
    /\ df.bound =>
          /\ attempts[Len(attempts)].outcome = "ok"
          /\ df.path = attempts[Len(attempts)].path

C3_Witness ==
    /\ Len(attempts) = 2
    /\ attempts[1].outcome = "FileNotFoundError"
    /\ attempts[2].outcome = "ok"
    /\ df.bound
    /\ fs[CloudPath].exists

\* the statements C4 lists
Pipeline == <<"create", "scale", "client", "load", "persist", "count", "render",
              "close">>
IsPipeline(s) == InSeq(Pipeline, s)

\* C4: a statement starts only when every statement before it has returned;
\* the cluster is closed only after the render has returned; and a run that
\* succeeds has executed create, scale (to 15 workers), client, load,
\* persist, count, render, close exactly once each, in this order.
C4_Linear ==
    /\ Len(returned) <= Len(started)
    /\ Len(started) <= Len(returned) + 1
    /\ returned = SubSeq(started, 1, Len(returned))
    /\ cluster = "closed" => InSeq(returned, "render")
    /\ InSeq(started, "client") => workers = NWorkers \/ cluster = "closed"
    /\ pc = "done" =>
          /\ err = NoErr
          /\ returned = started
          /\ SelectSeq(started, IsPipeline) = Pipeline
          /\ cluster = "closed"

C4_Witness ==
    /\ pc = "done"
    /\ rendered
    /\ nrows = NParts
    /\ cluster = "closed"

PersistCompleted == inMemory = NParts

\* the persist call returns before the data is in memory
C5_ReturnsEarly ==
    [][(InSeq(returned', "persist") /\ ~InSeq(returned, "persist"))
          => inMemory' < NParts]_vars

\* no later operation on the handle returns while the persist is in progress
C5_Blocks ==
    [][(Len(returned') > Len(returned)
          /\ returned'[Len(returned')] \in {"count", "render"})
          => PersistCompleted]_vars

C6_NothingBeforeAggregate ==
    inMemory > 0 => InSeq(started, "count") \/ InSeq(started, "render")

\* C6, amended: the loading statement materializes no rows, and none are
\* materialized before the persist statement has submitted the handle to the
\* cluster; from then on the cluster loads the rows, whether or not an
\* aggregate operation has been called.
C6_LazyUntilPersist ==
    /\ inMemory > 0 => InSeq(returned, "persist") /\ df.persisted
    /\ (df.bound /\ ~df.persisted) => inMemory = 0

C6_Witness ==
    /\ inMemory > 0
    /\ ~InSeq(started, "count")
    /\ df.bound
    /\ df.persisted

\* C7: no statement is executed twice and no path is read twice; once a
\* statement has raised, the run is stopped at that statement, no later
\* statement has started, cluster.close() has not run and the workers asked
\* for stay provisioned; with both paths absent the loading statement raises
\* FileNotFoundError.
C7_NoRetryNoRecovery ==
    /\ NoDup(started)
    /\ NoDup([k \in 1..Len(attempts) |-> attempts[k].path])
    /\ pc = "failed" <=> err # NoErr
    /\ err # NoErr =>
          /\ Len(started) >= 1
          /\ started[Len(started)] = err.step
          /\ returned = SubSeq(started, 1, Len(started) - 1)
          /\ err.step # "close" =>
                /\ ~InSeq(started, "close")
                /\ cluster # "closed"
                /\ InSeq(returned, "scale") => workers = NWorkers
    /\ (LoadOver /\ Outcome(PrimaryPath) = "FileNotFoundError"
                 /\ Outcome(SecondaryPath) = "FileNotFoundError")
          => err = [step |-> "load", type |-> "FileNotFoundError"]

C7_Witness ==
    /\ pc = "failed"
    /\ err = [step |-> "load", type |-> "FileNotFoundError"]
    /\ Len(attempts) = 2
    /\ workers = NWorkers
    /\ cluster = "created"

\* C8: a bound handle has the projection columns l and b, no index column
\* and the fastparquet engine, whichever of the two paths it reads; the two
\* branches give handles that differ in the path only.
C8_SameProjection ==
    df.bound =>
        /\ df.columns = <<"l", "b">>
        /\ df.index = <<>>
        /\ df.engine = "fastparquet"
        /\ df.path \in {PrimaryPath, SecondaryPath}
        /\ [df EXCEPT !.path = PrimaryPath, !.persisted = FALSE]
              = ReadParquet(PrimaryPath, PrimaryArgs)

C8_Witness ==
    /\ df.bound
    /\ df.path = SecondaryPath
    /\ df.columns = <<"l", "b">>

LoopOver == i > Len(Comps)

\* C9: after the logger loop, whatever levels the root logger and the
\* 'distributed' loggers had, the effective level of each of the five named
\* loggers is INFO or higher.
C9_EffectiveAtLeastInfo ==
    LoopOver => \A l \in Named : EffectiveLevel(level, l) >= INFO

C9_Witness ==
    /\ LoopOver
    /\ level0["root"] = DEBUG
    /\ \A l \in Named : level0[l] = NOTSET
    /\ \A l \in Named : EffectiveLevel(level, l) >= INFO

\* C10: the loop changes a logger's own level only when it is the logger the
\* iteration names and its effective level is below INFO, and then to INFO,
\* which is higher than the level it had; the root logger and the loggers
\* the loop does not name keep their level; a named child with no level of
\* its own is left at NOTSET.
C10_OnlyRaises ==
    /\ [][\A l \in Loggers :
            level'[l] # level[l] =>
               /\ pc = "logging"
               /\ i <= Len(Comps)
               /\ l = LoggerName(Comps[i])
               /\ EffectiveLevel(level, l) < INFO
               /\ level[l] < INFO
               /\ level'[l] = INFO]_vars
    /\ [](/\ level["root"] = level0["root"]
          /\ level[OtherLogger] = level0[OtherLogger]
          /\ \A l \in Named : level[l] \in {level0[l], INFO}
          /\ \A l \in Named \ {"distributed"} :
                level0[l] = NOTSET => level[l] = NOTSET)

C10_Witness ==
    /\ LoopOver
    /\ level0["root"] = DEBUG
    /\ level0["distributed"] = NOTSET
    /\ level0["distributed.core"] = NOTSET
    /\ level["distributed"] = INFO
    /\ level["distributed.core"] = NOTSET
    /\ level0["distributed.comm"] = DEBUG
    /\ level["distributed.comm"] = INFO

====
